---- MODULE Spec2Model ----
(***************************************************************************)
(* Study-log application (src/final.py): the SQLite table learning_log,    *)
(* the per-session cached dataframe st.session_state.df, the form handler  *)
(* input_section, the clear-all button handler and the three views         *)
(* (recent records, progress chart, weakest subject/topic).                *)
(*                                                                         *)
(* A Streamlit script run is one action: the script is executed top to     *)
(* bottom for one session, and a st.rerun()/st.experimental_rerun() at the *)
(* end of a handler starts the script again for the same session, which    *)
(* renders the views from the session's dataframe.                         *)
(***************************************************************************)
EXTENDS Integers, Sequences, FiniteSets

\* ------------------------------------------------------------------ bounds
\* Largest id the store hands out in a behaviour (caps the number of inserts).
MaxId == 3
\* Longest table content drawn for the aggregation specifications.
MaxLen == 3

\* ---------------------------------------------------------------- calendar
\* datetime.date: a record [y, m, d]; its proleptic Gregorian ordinal is what
\* date - timedelta(days=n) computes with.
IsLeap(y) == (y % 4 = 0 /\ y % 100 # 0) \/ y % 400 = 0

\* days before the first of month m: the table of a common year, one more
\* after February of a leap year
DaysBeforeMonth(y, m) ==
    << 0, 31, 59, 90, 120, 151, 181, 212, 243, 273, 304, 334 >>[m]
    + (IF m > 2 /\ IsLeap(y) THEN 1 ELSE 0)

DaysBeforeYear(y) ==
    (y - 1) * 365 + ((y - 1) \div 4) - ((y - 1) \div 100) + ((y - 1) \div 400)

ToOrdinal(date) ==
    DaysBeforeYear(date.y) + DaysBeforeMonth(date.y, date.m) + date.d

FromOrdinal(n) ==
    LET n0   == n - 1
        n400 == n0 \div 146097
        r400 == n0 % 146097
        n100 == r400 \div 36524
        r100 == r400 % 36524
        n4   == r100 \div 1461
        r4   == r100 % 1461
        n1   == r4 \div 365
        r1   == r4 % 365
        year == n400 * 400 + n100 * 100 + n4 * 4 + n1 + 1
    IN  IF n1 = 4 \/ n100 = 4
        THEN [y |-> year - 1, m |-> 12, d |-> 31]
        ELSE LET guess == (r1 + 50) \div 32
                 month == IF DaysBeforeMonth(year, guess) > r1 THEN guess - 1 ELSE guess
             IN  [y |-> year, m |-> month, d |-> r1 - DaysBeforeMonth(year, month) + 1]

\* date - timedelta(days=n)
MinusDays(date, n) == FromOrdinal(ToOrdinal(date) - n)

\* date1 >= date2 on datetime.date values
DateGE(a, b) ==
    \/ a.y > b.y
    \/ a.y = b.y /\ a.m > b.m
    \/ a.y = b.y /\ a.m = b.m /\ a.d >= b.d

\* date.strftime("%Y-%m-%d"): ten characters, zero padded decimal fields.
Strftime(date) ==
    << (date.y \div 1000) % 10, (date.y \div 100) % 10, (date.y \div 10) % 10, date.y % 10,
       "-", date.m \div 10, date.m % 10,
       "-", date.d \div 10, date.d % 10 >>

\* pd.to_datetime on the ISO text: a Timestamp at midnight, kept as the number
\* of days since 1970-01-01.
ToDatetime(text) ==
    LET date == [y |-> text[1] * 1000 + text[2] * 100 + text[3] * 10 + text[4],
                 m |-> text[6] * 10 + text[7],
                 d |-> text[9] * 10 + text[10]]
    IN  ToOrdinal(date) - ToOrdinal([y |-> 1970, m |-> 1, d |-> 1])

\* Series.dt.date on a Timestamp
DtDate(ts) == FromOrdinal(ts + ToOrdinal([y |-> 1970, m |-> 1, d |-> 1]))

\* ------------------------------------------------------------------- store
\* Text of the subjects the model uses, in the order Python compares
\* strings (code points); groupby sorts its keys in this order.
SubjectKeyOrder == << "Art", "IT", "Math" >>

OtherOption == "Other"
NoneSubject == "<None>"

Sessions == { "s1", "s2" }

RangeOptions == { "Today", "LastWeek", "LastMonth", "AllTime" }

Day0 == [y |-> 2024, m |-> 3, d |-> 1]

VARIABLES
    tableExists,   \* learning_log.db holds the table learning_log
    db,            \* rows of learning_log in rowid order
    seq,           \* sqlite_sequence.seq of learning_log (AUTOINCREMENT)
    df,            \* st.session_state.df of every session
    page,          \* the latest script run: its session, the message it
                   \* showed, the form it read, the dataframe it passed
                   \* to the views of tab2 and tab3
    today,         \* datetime.now().date()
    out            \* what the latest view call displayed

vars == << tableExists, db, seq, df, page, today, out >>

RECURSIVE MaxRowid(_)
MaxRowid(rows) ==
    IF rows = << >> THEN 0
    ELSE LET rest == MaxRowid(Tail(rows))
         IN  IF Head(rows).id > rest THEN Head(rows).id ELSE rest

\* CREATE TABLE IF NOT EXISTS: whether the table exists afterwards. The table
\* this statement creates has the study_time column, so the ALTER TABLE
\* branch is not taken and the rows are left as they are.
init_db(exists) == IF exists THEN exists ELSE TRUE

\* Variant: a plain INTEGER PRIMARY KEY, one more than the largest rowid now
\* in the table.
NextRowidNoAutoincrement(rows, seqv) == MaxRowid(rows) + 1

\* id INTEGER PRIMARY KEY AUTOINCREMENT: one more than the largest rowid the
\* table ever held.
NextRowid(rows, seqv) ==
    (IF MaxRowid(rows) > seqv THEN MaxRowid(rows) ELSE seqv) + 1

\* Variant: an INSERT that leaves study_time to its column default.
save_data_to_db_NoStudyTime(rows, seqv, date, subject, topic, score, study_time) ==
    Append(rows, [id |-> NextRowid(rows, seqv), date |-> Strftime(date),
                  subject |-> subject, topic |-> topic, score |-> score,
                  study_time |-> 0])

save_data_to_db(rows, seqv, date, subject, topic, score, study_time) ==
    Append(rows, [id |-> NextRowid(rows, seqv), date |-> Strftime(date),
                  subject |-> subject, topic |-> topic, score |-> score,
                  study_time |-> study_time])

\* SELECT * FROM learning_log, then the date column parsed.
load_data_from_db(rows) ==
    [i \in 1..Len(rows) |->
        [id |-> rows[i].id, date |-> ToDatetime(rows[i].date),
         subject |-> rows[i].subject, topic |-> rows[i].topic,
         score |-> rows[i].score, study_time |-> rows[i].study_time]]

\* Variant: the deletion is not committed.
DeleteAllDfOnly(rows) == rows

\* DELETE FROM learning_log
DeleteAll(rows) == << >>

\* -------------------------------------------------------------------- form
SliderMin == 1
SliderMax == 5
MinStudyTime == 0

\* Variant: the custom text is taken as it is.
SubjectToSaveNoCheck(selected_subject, custom_subject) ==
    IF selected_subject = OtherOption THEN custom_subject ELSE selected_subject

SubjectToSave(selected_subject, custom_subject) ==
    IF selected_subject = OtherOption
    THEN (IF custom_subject # "" THEN custom_subject ELSE NoneSubject)
    ELSE selected_subject

\* Variant: only the topic is checked.
WarningTopicOnly(topic, subject_to_save) ==
    IF topic = "" THEN "warn_topic" ELSE "ok"

\* if not topic / elif subject_to_save is None / else
Warning(topic, subject_to_save) ==
    IF topic = "" THEN "warn_topic"
    ELSE IF subject_to_save = NoneSubject THEN "warn_subject"
    ELSE "ok"

BlankForm ==
    [date |-> Day0, selected |-> "", custom |-> "", topic |-> "",
     score |-> SliderMin, study_time |-> MinStudyTime]

\* Submissions the user makes: four that pass the checks, differing in every
\* field, and four that do not.
FormInputs ==
    { [date |-> Day0, selected |-> "IT", custom |-> "", topic |-> "T1",
       score |-> SliderMin, study_time |-> MinStudyTime],
      [date |-> MinusDays(Day0, 1), selected |-> "IT", custom |-> "", topic |-> "T2",
       score |-> SliderMax, study_time |-> 60],
      [date |-> Day0, selected |-> OtherOption, custom |-> "Art", topic |-> "T1",
       score |-> 3, study_time |-> 60],
      [date |-> MinusDays(Day0, 1), selected |-> OtherOption, custom |-> "Art",
       topic |-> "T2", score |-> SliderMin, study_time |-> 5],
      [date |-> Day0, selected |-> "IT", custom |-> "", topic |-> "",
       score |-> 3, study_time |-> 60],
      [date |-> Day0, selected |-> OtherOption, custom |-> "", topic |-> "T1",
       score |-> 3, study_time |-> 60],
      [date |-> Day0, selected |-> OtherOption, custom |-> "", topic |-> "",
       score |-> SliderMin, study_time |-> MinStudyTime],
      [date |-> Day0, selected |-> OtherOption, custom |-> "Art", topic |-> "",
       score |-> SliderMax, study_time |-> 5] }

\* -------------------------------------------------------------- aggregation
Reverse(s) == [i \in 1..Len(s) |-> s[Len(s) + 1 - i]]

\* Stable ascending sort of records by their field k (numpy's sort of a short
\* array is an insertion sort).
RECURSIVE InsertByKey(_, _)
InsertByKey(sorted, x) ==
    IF sorted = << >> THEN << x >>
    ELSE IF x.k < Head(sorted).k THEN << x >> \o sorted
    ELSE << Head(sorted) >> \o InsertByKey(Tail(sorted), x)

RECURSIVE SortByKey(_)
SortByKey(s) ==
    IF s = << >> THEN << >>
    ELSE InsertByKey(SortByKey(SubSeq(s, 1, Len(s) - 1)), s[Len(s)])

\* sort_values(ascending=...): a descending sort reverses the data, sorts it
\* ascending and reverses the outcome.
sort_values(s, ascending) ==
    IF ascending THEN SortByKey(s) ELSE Reverse(SortByKey(Reverse(s)))

\* Variant: the first day of the range is left out.
RangeStartExclusive(opt, ref) ==
    CASE opt = "LastWeek"  -> MinusDays(ref, 6)
      [] opt = "LastMonth" -> MinusDays(ref, 29)
      [] OTHER             -> ref

\* seven_days_ago / thirty_days_ago of show_progress_chart
RangeStart(opt, ref) ==
    CASE opt = "LastWeek"  -> MinusDays(ref, 7)
      [] opt = "LastMonth" -> MinusDays(ref, 30)
      [] OTHER             -> ref

\* The row masks of show_progress_chart; no mask for the whole period.
filter_by_range(rows, opt, ref) ==
    LET start == RangeStart(opt, ref)
    IN  CASE opt = "Today" -> SelectSeq(rows, LAMBDA r : DtDate(r.date) = ref)
          [] opt \in {"LastWeek", "LastMonth"} ->
                 SelectSeq(rows, LAMBDA r : DateGE(DtDate(r.date), start))
          [] OTHER -> rows

\* Variant: groupby(sort=False), the keys in order of first appearance.
GroupKeysUnsorted(rows) ==
    LET first(i) == \A j \in 1..(i - 1) : rows[j].subject # rows[i].subject
        idx == SelectSeq([i \in 1..Len(rows) |-> i], first)
    IN  [i \in 1..Len(idx) |-> rows[idx[i]].subject]

\* groupby("subject"): one group per subject, keys sorted.
GroupKeys(rows) ==
    SelectSeq(SubjectKeyOrder, LAMBDA k : \E i \in 1..Len(rows) : rows[i].subject = k)

RECURSIVE SumStudyTime(_, _)
SumStudyTime(rows, key) ==
    IF rows = << >> THEN 0
    ELSE (IF Head(rows).subject = key THEN Head(rows).study_time ELSE 0)
         + SumStudyTime(Tail(rows), key)

RECURSIVE SumScore(_, _)
SumScore(rows, key) ==
    IF rows = << >> THEN 0
    ELSE (IF Head(rows).subject = key THEN Head(rows).score ELSE 0)
         + SumScore(Tail(rows), key)

CountRows(rows, key) == Len(SelectSeq(rows, LAMBDA r : r.subject = key))

\* groupby(subject)[study_time].sum().sort_values(ascending=False):
\* records [k: total, v: subject].
total_time_by_subject(rows) ==
    LET keys == GroupKeys(rows)
    IN  sort_values([i \in 1..Len(keys) |->
                        [k |-> SumStudyTime(rows, keys[i]), v |-> keys[i]]], FALSE)

RECURSIVE SumTotals(_)
SumTotals(totals) ==
    IF totals = << >> THEN 0 ELSE Head(totals).k + SumTotals(Tail(totals))

show_progress_chart(rows, opt, ref) ==
    IF rows = << >>
    THEN [status |-> "no_records", filtered |-> << >>, totals |-> << >>]
    ELSE LET filtered_df == filter_by_range(rows, opt, ref)
             totals      == total_time_by_subject(filtered_df)
         IN  IF filtered_df = << >>
             THEN [status |-> "no_records_in_range", filtered |-> filtered_df,
                   totals |-> << >>]
             ELSE IF SumTotals(totals) = 0
             THEN [status |-> "no_study_time", filtered |-> filtered_df,
                   totals |-> totals]
             ELSE [status |-> "plot", filtered |-> filtered_df, totals |-> totals]

\* The rows of the last seven days, newest first, as displayed.
show_recent_records(rows, ref) ==
    LET seven_days_ago == MinusDays(ref, 7)
        recent == SelectSeq(rows, LAMBDA r : DateGE(DtDate(r.date), seven_days_ago))
        sorted == sort_values([i \in 1..Len(recent) |->
                                  [k |-> recent[i].date, v |-> recent[i]]], FALSE)
    IN  [i \in 1..Len(sorted) |->
            [date |-> Strftime(DtDate(sorted[i].v.date)), subject |-> sorted[i].v.subject,
             topic |-> sorted[i].v.topic, score |-> sorted[i].v.score,
             study_time |-> sorted[i].v.study_time]]

\* Variant: an integer mean.
MeanFloor(rows, key) ==
    [num |-> SumScore(rows, key) \div CountRows(rows, key), den |-> 1]

\* groupby(subject)[score].mean(): the quotient of two small integers; two
\* float64 quotients compare as the exact fractions do.
Mean(rows, key) == [num |-> SumScore(rows, key), den |-> CountRows(rows, key)]

MeanLess(a, b) == a.num * b.den < b.num * a.den

\* Series.idxmin(): the label of the first minimum.
weakest_subject(rows) ==
    LET keys == GroupKeys(rows)
        i == CHOOSE i \in 1..Len(keys) :
                /\ \A j \in 1..Len(keys) : ~ MeanLess(Mean(rows, keys[j]), Mean(rows, keys[i]))
                /\ \A j \in 1..(i - 1) : MeanLess(Mean(rows, keys[i]), Mean(rows, keys[j]))
    IN  keys[i]

\* Variant: the last minimum.
IdxMinScoreLast(rows) ==
    CHOOSE i \in 1..Len(rows) :
        /\ \A j \in 1..Len(rows) : rows[j].score >= rows[i].score
        /\ \A j \in (i + 1)..Len(rows) : rows[j].score > rows[i].score

IdxMinScore(rows) ==
    CHOOSE i \in 1..Len(rows) :
        /\ \A j \in 1..Len(rows) : rows[j].score >= rows[i].score
        /\ \A j \in 1..(i - 1) : rows[j].score > rows[i].score

\* The topic of the lowest-score record of the subject.
weakest_topic_for(rows, subject) ==
    LET weakest_subject_df == SelectSeq(rows, LAMBDA r : r.subject = subject)
    IN  IF weakest_subject_df = << >> THEN ""
        ELSE weakest_subject_df[IdxMinScore(weakest_subject_df)].topic

\* tab3: the arguments passed to suggest_tasks.
tab3(rows) ==
    IF rows = << >> THEN [weakest |-> NoneSubject, topic |-> ""]
    ELSE [weakest |-> weakest_subject(rows),
          topic |-> weakest_topic_for(rows, weakest_subject(rows))]

\* ------------------------------------------------------------- script runs
BlankPage == [sess |-> "", msg |-> "none", form |-> BlankForm, shown |-> << >>]

BlankOut ==
    [view |-> "none", opt |-> "",
     recent |-> << >>,
     chart |-> [status |-> "no_records", filtered |-> << >>, totals |-> << >>],
     ai |-> [weakest |-> NoneSubject, topic |-> ""]]

\* if 'df' not in st.session_state: st.session_state.df = load_data_from_db()
SessionDf(s) == IF df[s].loaded THEN df[s].rows ELSE load_data_from_db(db)

\* Variant: the session's dataframe is not reloaded.
ReloadKeepsDf(old, rows) == old

\* st.session_state.df = load_data_from_db() after a write
Reload(old, rows) == load_data_from_db(rows)

\* A run with no button pressed (the page is opened or a widget outside the
\* form is changed).
Open(s) ==
    /\ tableExists' = init_db(tableExists)
    /\ df' = [df EXCEPT ![s] = [loaded |-> TRUE, rows |-> SessionDf(s)]]
    /\ page' = [sess |-> s, msg |-> "none", form |-> BlankForm, shown |-> SessionDf(s)]
    /\ UNCHANGED << db, seq, today, out >>

\* A run with the form's submit button pressed. After a save the script is
\* rerun and tab2/tab3 get the session's dataframe.
Submit(s, form) ==
    /\ df[s].loaded
    /\ tableExists' = init_db(tableExists)
    /\ LET subject_to_save == SubjectToSave(form.selected, form.custom)
           warning == Warning(form.topic, subject_to_save)
       IN  IF warning # "ok"
           THEN /\ page' = [sess |-> s, msg |-> warning, form |-> form,
                            shown |-> df[s].rows]
                /\ UNCHANGED << db, seq, df, today, out >>
           ELSE /\ seq < MaxId
                /\ db' = save_data_to_db(db, seq, form.date, subject_to_save,
                                         form.topic, form.score, form.study_time)
                /\ seq' = db'[Len(db')].id
                /\ df' = [df EXCEPT ![s] =
                             [loaded |-> TRUE, rows |-> Reload(df[s].rows, db')]]
                /\ page' = [sess |-> s, msg |-> "added", form |-> form,
                            shown |-> df'[s].rows]
                /\ UNCHANGED << today, out >>

\* A run with the clear-all button pressed; confirm is the outcome of the
\* st.confirm call: "yes", "no", or "raise" when the call fails. tab2/tab3
\* are rendered before the button is reached, and again by the rerun that
\* follows a deletion.
Clear(s, confirm) ==
    /\ df[s].loaded
    /\ tableExists' = init_db(tableExists)
    /\ IF confirm = "yes"
       THEN /\ db' = DeleteAll(db)
            /\ df' = [df EXCEPT ![s] =
                         [loaded |-> TRUE, rows |-> Reload(df[s].rows, db')]]
            /\ page' = [sess |-> s, msg |-> "cleared", form |-> BlankForm,
                        shown |-> df'[s].rows]
            /\ UNCHANGED << seq, today, out >>
       ELSE /\ page' = [sess |-> s, msg |-> IF confirm = "no" THEN "cancelled" ELSE "error",
                        form |-> BlankForm, shown |-> df[s].rows]
            /\ UNCHANGED << db, seq, df, today, out >>

\* The server process is restarted: every session state is lost, the
\* database file stays.
Restart ==
    /\ \E s \in Sessions : df[s].loaded
    /\ df' = [s \in Sessions |-> [loaded |-> FALSE, rows |-> << >>]]
    /\ page' = BlankPage
    /\ UNCHANGED << tableExists, db, seq, today, out >>

Init ==
    /\ tableExists = FALSE
    /\ db = << >>
    /\ seq = 0
    /\ df = [s \in Sessions |-> [loaded |-> FALSE, rows |-> << >>]]
    /\ page = BlankPage
    /\ today = Day0
    /\ out = BlankOut

Next ==
    \/ \E s \in Sessions : Open(s)
    \/ \E s \in Sessions, form \in FormInputs : Submit(s, form)
    \/ \E s \in Sessions, confirm \in {"yes", "no", "raise"} : Clear(s, confirm)
    \/ Restart

Spec == Init /\ [][Next]_vars

\* ------------------------------------------------------------- view calls
\* show_recent_records(st.session_state.df)
ShowRecentRecords ==
    /\ page.sess # ""
    /\ out' = [BlankOut EXCEPT !.view = "recent",
                               !.recent = show_recent_records(page.shown, today)]
    /\ UNCHANGED << tableExists, db, seq, df, page, today >>

\* show_progress_chart(st.session_state.df) with the selectbox at opt
ShowProgressChart(opt) ==
    /\ page.sess # ""
    /\ out' = [BlankOut EXCEPT !.view = "chart", !.opt = opt,
                               !.chart = show_progress_chart(page.shown, opt, today)]
    /\ UNCHANGED << tableExists, db, seq, df, page, today >>

\* the weakest-subject block of tab3
Tab3 ==
    /\ page.sess # ""
    /\ out' = [BlankOut EXCEPT !.view = "tab3", !.ai = tab3(page.shown)]
    /\ UNCHANGED << tableExists, db, seq, df, page, today >>

\* Tables the views are run on: the outcome of up to MaxLen accepted
\* submissions into an empty table, read by session s1.
SeqsUpTo(S, n) == UNION { [1..k -> S] : k \in 0..n }

TopicAt == << "T1", "T2", "T3", "T4", "T5", "T6" >>

NewYear == [y |-> 2025, m |-> 1, d |-> 1]

\* dates around the boundaries of the three ranges
DateEntries(ref) ==
    { [date |-> MinusDays(ref, k), subject |-> "IT", topic |-> "T1",
       score |-> 3, study_time |-> 60] : k \in {31, 30, 8, 7, 1, 0, -1} }

\* subjects and study times, today and yesterday
TimeEntries ==
    { [date |-> Day0, subject |-> sub, topic |-> "T1", score |-> 3, study_time |-> 30] :
          sub \in {"Art", "IT", "Math"} }
    \cup
    { [date |-> Day0, subject |-> "Art", topic |-> "T1", score |-> 3,
       study_time |-> MinStudyTime] }
    \cup
    { [date |-> MinusDays(Day0, 1), subject |-> sub, topic |-> "T1", score |-> 3,
       study_time |-> 30] : sub \in {"IT", "Math"} }

\* subjects and scores
ScoreEntries ==
    { [date |-> Day0, subject |-> sub, topic |-> "", score |-> sc, study_time |-> 60] :
          sub \in {"Art", "IT", "Math"}, sc \in {SliderMin, 2} }

RECURSIVE BuildDb(_, _)
BuildDb(rows, entries) ==
    IF entries = << >> THEN rows
    ELSE BuildDb(save_data_to_db(rows, MaxRowid(rows), Head(entries).date,
                                 Head(entries).subject, Head(entries).topic,
                                 Head(entries).score, Head(entries).study_time),
                 Tail(entries))

InitTable(ref, entries) ==
    /\ tableExists = TRUE
    /\ db = BuildDb(<< >>, entries)
    /\ seq = Len(entries)
    /\ df = [s \in Sessions |->
                IF s = "s1" THEN [loaded |-> TRUE, rows |-> load_data_from_db(db)]
                ELSE [loaded |-> FALSE, rows |-> << >>]]
    /\ page = [sess |-> "s1", msg |-> "none", form |-> BlankForm,
               shown |-> load_data_from_db(db)]
    /\ today = ref
    /\ out = BlankOut

InitAgg ==
    \/ \E entries \in SeqsUpTo(DateEntries(NewYear), MaxLen) : InitTable(NewYear, entries)
    \/ \E entries \in SeqsUpTo(TimeEntries, MaxLen) : InitTable(Day0, entries)
    \/ \E entries \in SeqsUpTo(ScoreEntries, MaxLen) :
           InitTable(Day0, [i \in 1..Len(entries) |->
                               [entries[i] EXCEPT !.topic = TopicAt[i]]])

NextAgg ==
    \/ ShowRecentRecords
    \/ \E opt \in RangeOptions : ShowProgressChart(opt)
    \/ Tab3

SpecAgg == InitAgg /\ [][NextAgg]_vars

\* ------------------------------------------------------------------ claims
\* Days from the date of a dataframe row to today.
DaysAgo(r) == ToDatetime(Strftime(today)) - r.date

Subjects(rows) == { rows[i].subject : i \in 1..Len(rows) }

Permutations(n) == { p \in [1..n -> 1..n] : \A i, j \in 1..n : p[i] = p[j] => i = j }

Permuted(rows, p) == [i \in 1..Len(rows) |-> rows[p[i]]]

FirstIndex(rows, subject) ==
    CHOOSE i \in 1..Len(rows) :
        /\ rows[i].subject = subject
        /\ \A j \in 1..(i - 1) : rows[j].subject # subject

KeyRank(subject) == CHOOSE i \in 1..Len(SubjectKeyOrder) : SubjectKeyOrder[i] = subject

\* C6: the chart's filter keeps, in their order, exactly the rows dated today
\* (Today), at most 7 days before today (LastWeek), at most 30 days before
\* today (LastMonth), every row (AllTime); rows dated after today are kept by
\* LastWeek, LastMonth and AllTime; nothing is kept of an empty dataframe and
\* the dataframe passed in is still the table's content.
C6_Theorem ==
    out.view = "chart" =>
        LET Keep(r) ==
                CASE out.opt = "Today"     -> DaysAgo(r) = 0
                  [] out.opt = "LastWeek"  -> DaysAgo(r) <= 7
                  [] out.opt = "LastMonth" -> DaysAgo(r) <= 30
                  [] OTHER                 -> TRUE
        IN  /\ out.chart.filtered = SelectSeq(page.shown, Keep)
            /\ page.shown = << >> => out.chart.filtered = << >>
            /\ page.shown = load_data_from_db(db)
            /\ df[page.sess].rows = page.shown

\* C6 witness: a LastWeek chart of a dataframe with a row dated seven days
\* ago (kept) and a row dated eight days ago (dropped).
C6_Witness ==
    /\ out.view = "chart"
    /\ out.opt = "LastWeek"
    /\ \E i \in 1..Len(page.shown) : DaysAgo(page.shown[i]) = 7
    /\ \E i \in 1..Len(page.shown) : DaysAgo(page.shown[i]) = 8
    /\ Len(out.chart.filtered) = Len(page.shown) - 1

\* The totals of a chart: one entry per subject of the filtered rows, each the
\* sum of the subject's study times, in non-increasing order.
TotalsAreSums(totals, rows) ==
    /\ { totals[i].v : i \in 1..Len(totals) } = Subjects(rows)
    /\ Len(totals) = Cardinality(Subjects(rows))
    /\ \A i \in 1..Len(totals) : totals[i].k = SumStudyTime(rows, totals[i].v)
    /\ \A i \in 1..(Len(totals) - 1) : totals[i].k >= totals[i + 1].k

\* C7 as stated, for the totals that are plotted: the totals are the
\* per-subject sums in non-increasing order,
\* and of two subjects with equal totals the one whose first entry comes
\* earlier in the input is listed first.
C7_Original ==
    (out.view = "chart" /\ out.chart.status = "plot") =>
        LET totals == out.chart.totals
            rows   == out.chart.filtered
        IN  /\ TotalsAreSums(totals, rows)
            /\ \A i, j \in 1..Len(totals) :
                   (i < j /\ totals[i].k = totals[j].k) =>
                       FirstIndex(rows, totals[i].v) < FirstIndex(rows, totals[j].v)

\* C7 amended: the totals are the per-subject sums in non-increasing order,
\* and the listing, the order of subjects with equal totals included, is the
\* same for every reordering of the input.
C7_Theorem ==
    (out.view = "chart" /\ out.chart.filtered # << >>) =>
        LET totals == out.chart.totals
            rows   == out.chart.filtered
        IN  /\ TotalsAreSums(totals, rows)
            /\ \A p \in Permutations(Len(rows)) :
                   total_time_by_subject(Permuted(rows, p)) = totals

\* C7 witness: a plotted chart of three subjects, two of them with equal
\* totals above the third's, the later-listed of the two met first in the
\* input.
C7_Witness ==
    /\ out.view = "chart"
    /\ out.chart.status = "plot"
    /\ Len(out.chart.totals) = 3
    /\ out.chart.totals[1].k = out.chart.totals[2].k
    /\ out.chart.totals[2].k > out.chart.totals[3].k
    /\ FirstIndex(out.chart.filtered, out.chart.totals[2].v)
           < FirstIndex(out.chart.filtered, out.chart.totals[1].v)

\* C8: for a non-empty dataframe the weakest subject has the minimum mean
\* score of all subjects, is the same for every permutation of the rows, and
\* among the subjects sharing the minimum mean it is the first in key order.
C8_Theorem ==
    (out.view = "tab3" /\ page.shown # << >>) =>
        LET rows == page.shown
            w    == out.ai.weakest
        IN  /\ w \in Subjects(rows)
            /\ \A s \in Subjects(rows) :
                   SumScore(rows, w) * CountRows(rows, s)
                       <= SumScore(rows, s) * CountRows(rows, w)
            /\ \A s \in Subjects(rows) :
                   SumScore(rows, w) * CountRows(rows, s)
                       = SumScore(rows, s) * CountRows(rows, w)
                   => KeyRank(w) <= KeyRank(s)
            /\ \A p \in Permutations(Len(rows)) :
                   weakest_subject(Permuted(rows, p)) = w

\* C8 witness: two subjects share the minimum mean with different numbers of
\* rows, a third has a higher mean, and the subject met first in the
\* dataframe is not the one returned.
C8_Witness ==
    /\ out.view = "tab3"
    /\ Len(page.shown) = 3
    /\ Cardinality(Subjects(page.shown)) = 2
    /\ page.shown[1].subject # out.ai.weakest
    /\ \E s \in Subjects(page.shown) :
           /\ s # out.ai.weakest
           /\ CountRows(page.shown, s) # CountRows(page.shown, out.ai.weakest)
           /\ SumScore(page.shown, s) * CountRows(page.shown, out.ai.weakest)
                  = SumScore(page.shown, out.ai.weakest) * CountRows(page.shown, s)

\* The first row of the subject that has the subject's minimum score.
FirstMinRow(rows, subject, i) ==
    /\ rows[i].subject = subject
    /\ \A j \in 1..Len(rows) : rows[j].subject = subject => rows[j].score >= rows[i].score
    /\ \A j \in 1..(i - 1) : rows[j].subject = subject => rows[j].score > rows[i].score

\* C9: for every subject of the dataframe the weakest topic is the topic of
\* the first row, in store order, among the subject's rows of minimum score;
\* tab3 passes on that topic for the weakest subject.
C9_Theorem ==
    (out.view = "tab3" /\ page.shown # << >>) =>
        LET rows == page.shown
        IN  /\ \A s \in Subjects(rows) : \E i \in 1..Len(rows) :
                   /\ FirstMinRow(rows, s, i)
                   /\ weakest_topic_for(rows, s) = rows[i].topic
            /\ \E i \in 1..Len(rows) :
                   /\ FirstMinRow(rows, out.ai.weakest, i)
                   /\ out.ai.topic = rows[i].topic

\* C9 witness: the weakest subject has two rows of its minimum score with
\* different topics, after a row of another subject, and the topic of the
\* earlier of the two is passed on.
C9_Witness ==
    /\ out.view = "tab3"
    /\ \E i, j \in 1..Len(page.shown) :
           /\ 1 < i /\ i < j
           /\ page.shown[1].subject # out.ai.weakest
           /\ FirstMinRow(page.shown, out.ai.weakest, i)
           /\ page.shown[j].subject = out.ai.weakest
           /\ page.shown[j].score = page.shown[i].score
           /\ page.shown[j].topic # page.shown[i].topic
           /\ out.ai.topic = page.shown[i].topic

\* list_all(): what load_data_from_db returns for the table's content.
ListAll == load_data_from_db(db)

\* C1: after an accepted submission list_all() is the former list, every entry
\* with all its fields as before, followed by one entry that carries the
\* submitted date, subject, topic, score and study time and an id no former
\* entry has.
C1_Theorem ==
    [][page'.msg = "added" =>
          \E before \in {ListAll}, after \in {ListAll'}, form \in {page'.form} :
          \E new \in {after[Len(after)]} :
              /\ Len(after) = Len(before) + 1
              /\ SubSeq(after, 1, Len(before)) = before
              /\ DtDate(new.date) = form.date
              /\ db'[Len(db')].date = Strftime(form.date)
              /\ new.subject = IF form.selected = OtherOption THEN form.custom
                               ELSE form.selected
              /\ new.topic = form.topic
              /\ new.score = form.score
              /\ new.study_time = form.study_time
              /\ \A i \in 1..Len(before) : before[i].id # new.id]_vars

\* C1 witness: an accepted submission with a custom subject and a study time
\* above zero, dated 29 February, into a table that held an entry already.
C1_Witness ==
    /\ page.msg = "added"
    /\ Len(db) >= 2
    /\ page.form.selected = OtherOption
    /\ page.form.study_time > 0
    /\ page.form.date = [y |-> 2024, m |-> 2, d |-> 29]

\* C2: the ids in the table increase with the row order and none exceeds the
\* sequence value; the sequence value never decreases, and every insert
\* assigns an id above it, hence above every id assigned before, whether or
\* not the entries that held those ids were deleted or the process restarted.
C2_Theorem ==
    /\ [](/\ \A i \in 1..Len(db) : db[i].id <= seq
          /\ \A i, j \in 1..Len(db) : i < j => db[i].id < db[j].id)
    /\ [][/\ seq' >= seq
          /\ (db' # db /\ db' # << >>) =>
                 /\ db'[Len(db')].id > seq
                 /\ seq' = db'[Len(db')].id]_vars

\* C2 witness: the only entry of the table has the id 3: two ids were
\* assigned and deleted before it.
C2_Witness ==
    /\ Len(db) = 1
    /\ db[1].id = 3

\* C3: after a confirmed clear_all list_all() is empty, and an empty table
\* gets entries again only by an accepted submission.
C3_Theorem ==
    /\ [](page.msg = "cleared" => ListAll = << >>)
    /\ [][(db = << >> /\ db' # << >>) => page'.msg = "added"]_vars

\* C3 witness: a clear_all has just deleted at least two entries.
C3_Witness ==
    /\ page.msg = "cleared"
    /\ seq >= 2
    /\ db = << >>

\* C4: every stored entry has a score in 1..5, a study time of at least 0
\* and a subject that is neither missing nor empty.
C4_Theorem ==
    \A i \in 1..Len(db) :
        /\ db[i].score \in 1..5
        /\ db[i].study_time >= 0
        /\ db[i].subject # NoneSubject
        /\ db[i].subject # ""

\* C4 witness: the table holds an entry with score 5, one with score 1 and
\* study time 0, and one with a custom subject.
C4_Witness ==
    /\ \E i \in 1..Len(db) : db[i].score = 5
    /\ \E i \in 1..Len(db) : db[i].score = 1 /\ db[i].study_time = 0
    /\ \E i \in 1..Len(db) : db[i].subject = "Art"

\* C5 as stated: the dataframe a run passes to the views equals the current
\* content of the table.
C5_Original ==
    page.sess # "" => page.shown = ListAll

\* C5 amended: the views get the running session's cached dataframe; that
\* dataframe equals the table's content when the session first loads it and
\* right after the session's own insert or clear_all.
C5_Theorem ==
    /\ [](page.sess # "" =>
             /\ page.shown = df[page.sess].rows
             /\ page.msg \in {"added", "cleared"} => page.shown = ListAll)
    /\ [][\A s \in Sessions :
              (~ df[s].loaded /\ df'[s].loaded) => df'[s].rows = ListAll']_vars

\* C5 witness: a session has just inserted an entry and shows the table's
\* content, while the other session holds a dataframe loaded before.
C5_Witness ==
    /\ page.msg = "added"
    /\ page.shown = ListAll
    /\ \E s \in Sessions : s # page.sess /\ df[s].loaded /\ df[s].rows # ListAll

\* The form has no topic, or the "other" option without a custom subject.
Incomplete(form) ==
    \/ form.topic = ""
    \/ form.selected = OtherOption /\ form.custom = ""

\* C10: a submission is answered by a warning exactly when its topic is empty
\* or its subject is the "other" option without custom text, and a run that
\* warns leaves the table, its id sequence and every session's dataframe as
\* they were.
C10_Theorem ==
    /\ [](page.msg \in {"added", "warn_topic", "warn_subject"} =>
             (Incomplete(page.form) <=> page.msg \in {"warn_topic", "warn_subject"}))
    /\ [][page'.msg \in {"warn_topic", "warn_subject"} =>
             /\ db' = db
             /\ seq' = seq
             /\ df' = df
             /\ tableExists' = tableExists]_vars

\* C10 witness: the "other" option without custom text was submitted with a
\* topic to a table that holds entries, and the warning about the subject was
\* shown.
C10_Witness ==
    /\ page.msg = "warn_subject"
    /\ page.form.topic # ""
    /\ db # << >>
    /\ df[page.sess].rows = ListAll

====
